---- MODULE Spec2Model ----
(***************************************************************************)
(* Model of SwitchRomMerger (switch_rom_merger.py): identifier extraction, *)
(* file classification, name resolution and the multi-phase grouping of    *)
(* scan_directory.  Strings are sequences of one-character strings, so     *)
(* that the regular expressions and substring tests of the source are      *)
(* computed character by character.  A file is an index into Catalogue.    *)
(***************************************************************************)
EXTENDS Integers, Sequences, FiniteSets, TLC

VARIABLES all_files, pc, idx, raw_files, base_id_map, dir_groups, game_files,
          ex_name, ex_result, args, reported, merge_log, prev_result, runs,
          mpc, cur, workers, output_dir, backup_dir, work_dirs,
          scan_button, merge_button, game_tree, gui_threads

vars == <<all_files, pc, idx, raw_files, base_id_map, dir_groups, game_files,
          ex_name, ex_result, args, reported, merge_log, prev_result, runs,
          mpc, cur, workers, output_dir, backup_dir, work_dirs,
          scan_button, merge_button, game_tree, gui_threads>>

\* what main and a second call of scan_directory add to the state
mainVars == <<args, reported, merge_log, prev_result, runs>>

\* what one call of merge_files and its worker threads add: the position of
\* the main thread in merge_files, its locals, the threads started, and the
\* OUTPUT, TEMP/backup and TEMP/<stem> directories
mergeVars == <<mpc, cur, workers, output_dir, backup_dir, work_dirs>>

\* the window of switch_gui.py: its two buttons, whether the game list has
\* rows, and the background threads its handlers have started
guiVars == <<scan_button, merge_button, game_tree, gui_threads>>

(***************************************************************************)
(* Bounds of the model.                                                    *)
(***************************************************************************)
MaxFiles == 3

MaxPieces == 3

(***************************************************************************)
(* Characters and strings.                                                 *)
(***************************************************************************)
IdLen == 16

BasePrefixLen == 13

None == <<>>

NoFile == 0

UpperAlpha == <<"A","B","C","D","E","F","G","H","I","J","K","L","M",
                "N","O","P","Q","R","S","T","U","V","W","X","Y","Z">>

LowerAlpha == <<"a","b","c","d","e","f","g","h","i","j","k","l","m",
                "n","o","p","q","r","s","t","u","v","w","x","y","z">>

Digits == {"0","1","2","3","4","5","6","7","8","9"}

HexChars == Digits \cup {"a","b","c","d","e","f","A","B","C","D","E","F"}

LowerChar(c) ==
    IF \E k \in 1..Len(UpperAlpha) : UpperAlpha[k] = c
    THEN LowerAlpha[CHOOSE k \in 1..Len(UpperAlpha) : UpperAlpha[k] = c]
    ELSE c

UpperChar(c) ==
    IF \E k \in 1..Len(LowerAlpha) : LowerAlpha[k] = c
    THEN UpperAlpha[CHOOSE k \in 1..Len(LowerAlpha) : LowerAlpha[k] = c]
    ELSE c

Lower(s) == [k \in 1..Len(s) |-> LowerChar(s[k])]

Upper(s) == [k \in 1..Len(s) |-> UpperChar(s[k])]

\* s[a..b] of Python's slices, written with 1-based inclusive positions
Slice(s, a, b) == SubSeq(s, a, b)

\* Python's `sub in s`
Contains(s, sub) ==
    \E k \in 1..(Len(s) - Len(sub) + 1) : SubSeq(s, k, k + Len(sub) - 1) = sub

StartsWith(s, p) == Len(s) >= Len(p) /\ SubSeq(s, 1, Len(p)) = p

EndsWith(s, p) == Len(s) >= Len(p) /\ SubSeq(s, Len(s) - Len(p) + 1, Len(s)) = p

AllHex(s, a, b) == \A k \in a..b : s[k] \in HexChars

Min(S) == CHOOSE m \in S : \A n \in S : m <= n

(***************************************************************************)
(* extract_title_id: re.search of the bracketed pattern over the whole     *)
(* string first, then of the unbracketed pattern with its look-behind and  *)
(* look-ahead; the leftmost match of the first pattern that matches.       *)
(***************************************************************************)
BracketedAt(s, k) ==
    /\ k + IdLen + 1 <= Len(s)
    /\ s[k] = "["
    /\ AllHex(s, k + 1, k + IdLen)
    /\ s[k + IdLen + 1] = "]"

BareAt(s, k) ==
    /\ k + IdLen - 1 <= Len(s)
    /\ AllHex(s, k, k + IdLen - 1)
    /\ (k = 1 \/ s[k - 1] # "[")
    /\ (k + IdLen > Len(s) \/ s[k + IdLen] # "]")

BracketedMatches(s) == {k \in 1..Len(s) : BracketedAt(s, k)}

BareMatches(s) == {k \in 1..Len(s) : BareAt(s, k)}

\* the two patterns tried in the opposite order
extract_title_id_bare_first(filename) ==
    IF BareMatches(filename) # {}
    THEN LET k == Min(BareMatches(filename))
         IN  Upper(Slice(filename, k, k + IdLen - 1))
    ELSE IF BracketedMatches(filename) # {}
    THEN LET k == Min(BracketedMatches(filename))
         IN  Upper(Slice(filename, k + 1, k + IdLen))
    ELSE None

extract_title_id(filename) ==
    IF BracketedMatches(filename) # {}
    THEN LET k == Min(BracketedMatches(filename))
         IN  Upper(Slice(filename, k + 1, k + IdLen))
    ELSE IF BareMatches(filename) # {}
    THEN LET k == Min(BareMatches(filename))
         IN  Upper(Slice(filename, k, k + IdLen - 1))
    ELSE None

extract_base_title_id(title_id) ==
    IF title_id = None \/ Len(title_id) # IdLen
    THEN title_id
    ELSE Slice(title_id, 1, BasePrefixLen) \o <<"0","0","0">>

(***************************************************************************)
(* is_dlc_file and is_update_file.  A path is the sequence of its parts    *)
(* below the scanned directory; str(file_path) also carries the scanned    *)
(* directory itself.                                                       *)
(***************************************************************************)
Sep == "/"

RootStr == <<"r","o","m">>

RECURSIVE JoinParts(_)
JoinParts(parts) ==
    IF Len(parts) = 0 THEN <<>>
    ELSE IF Len(parts) = 1 THEN parts[1]
    ELSE parts[1] \o <<Sep>> \o JoinParts(Tail(parts))

\* str(file_path)
PathStr(parts) == RootStr \o <<Sep>> \o JoinParts(parts)

\* file_path.name
PathName(parts) == parts[Len(parts)]

KwDlc == <<"d","l","c">>

UpdateKeywords ==
    { <<"u","p","d">>, <<"u","p","d","a","t","e">>, <<"U+66F4","U+65B0">>,
      <<"p","a","t","c","h">>, <<"U+8865","U+4E01">>,
      <<"v","1",".">>, <<"v","2",".">> }

HasDlcId(title_id) ==
    /\ title_id # None
    /\ Len(title_id) = IdLen
    /\ Slice(title_id, 14, 15) = <<"0","0">>
    /\ title_id[16] # "0"

HasUpdateId(title_id) ==
    /\ title_id # None
    /\ Len(title_id) = IdLen
    /\ Slice(title_id, 14, 16) = <<"8","0","0">>

is_dlc_file(parts) ==
    LET file_str == Lower(PathStr(parts))
        filename == Lower(PathName(parts))
    IN  \/ Contains(filename, KwDlc) \/ Contains(file_str, KwDlc)
        \/ HasDlcId(extract_title_id(file_str))

\* the keyword test alone, without the identifier rule
is_update_file_keyword_only(parts) ==
    LET filename == Lower(PathName(parts))
    IN  \E kw \in UpdateKeywords : Contains(filename, kw)

\* the identifier rule alone, without the keyword test
is_update_file_id_only(parts) ==
    HasUpdateId(extract_title_id(Lower(PathStr(parts))))

is_update_file(parts) ==
    LET file_str == Lower(PathStr(parts))
        filename == Lower(PathName(parts))
    IN  \/ \E kw \in UpdateKeywords : Contains(filename, kw)
        \/ HasUpdateId(extract_title_id(file_str))

(***************************************************************************)
(* The name of a file's bucket (scan_directory, lines 229-246).            *)
(***************************************************************************)
\* re.sub(o + '.*?' + c, '', s) for one-character delimiters o and c
RECURSIVE SubDelimited(_, _, _)
SubDelimited(s, o, c) ==
    IF s = <<>> THEN <<>>
    ELSE IF Head(s) = o /\ \E j \in 2..Len(s) : s[j] = c
    THEN LET j == Min({k \in 2..Len(s) : s[k] = c})
         IN  SubDelimited(SubSeq(s, j + 1, Len(s)), o, c)
    ELSE <<Head(s)>> \o SubDelimited(Tail(s), o, c)

\* the first position at or after k that holds no digit
RECURSIVE DigitsEnd(_, _)
DigitsEnd(s, k) ==
    IF k <= Len(s) /\ s[k] \in Digits THEN DigitsEnd(s, k + 1) ELSE k

\* the end of (\.\d+)* starting at k
RECURSIVE DotGroupsEnd(_, _)
DotGroupsEnd(s, k) ==
    IF k + 1 <= Len(s) /\ s[k] = "." /\ s[k + 1] \in Digits
    THEN DotGroupsEnd(s, DigitsEnd(s, k + 1))
    ELSE k

\* re.sub(r'v\d+(\.\d+)*', '', s)
RECURSIVE SubVersion(_)
SubVersion(s) ==
    IF s = <<>> THEN <<>>
    ELSE IF Head(s) = "v" /\ Len(s) >= 2 /\ s[2] \in Digits
    THEN SubVersion(SubSeq(s, DotGroupsEnd(s, DigitsEnd(s, 2)), Len(s)))
    ELSE <<Head(s)>> \o SubVersion(Tail(s))

\* s.replace(sub, '')
RECURSIVE RemoveAll(_, _)
RemoveAll(s, sub) ==
    IF s = <<>> \/ sub = <<>> THEN s
    ELSE IF StartsWith(s, sub)
    THEN RemoveAll(SubSeq(s, Len(sub) + 1, Len(s)), sub)
    ELSE <<Head(s)>> \o RemoveAll(Tail(s), sub)

StripSet == {"_", ".", "-", " "}

RECURSIVE LStrip(_)
LStrip(s) == IF s # <<>> /\ Head(s) \in StripSet THEN LStrip(Tail(s)) ELSE s

RECURSIVE RStrip(_)
RStrip(s) ==
    IF s # <<>> /\ s[Len(s)] \in StripSet THEN RStrip(SubSeq(s, 1, Len(s) - 1)) ELSE s

\* s.strip('_.- ')
Strip(s) == RStrip(LStrip(s))

NameFromFilename(filename, title_id) ==
    Strip(RemoveAll(SubVersion(SubDelimited(SubDelimited(filename, "[", "]"),
                                            "(", ")")),
                    title_id))

GamePrefix == <<"G","a","m","e","_">>

\* rel_path.parts[0] if len(rel_path.parts) > 0 else ""
ParentDirOf(parts) == IF Len(parts) > 0 THEN parts[1] ELSE <<>>

\* lines 229-242 without the fallback of lines 245-246
ResolveName_no_fallback(parts, title_id) ==
    LET parent_dir == ParentDirOf(parts)
        n1 == IF parent_dir # <<>> THEN parent_dir ELSE None
    IN  IF n1 = None \/ n1 = title_id
        THEN NameFromFilename(PathName(parts), title_id)
        ELSE n1

ResolveName(parts, title_id) ==
    LET parent_dir == ParentDirOf(parts)
        n1 == IF parent_dir # <<>> THEN parent_dir ELSE None
        n2 == IF n1 = None \/ n1 = title_id
              THEN NameFromFilename(PathName(parts), title_id)
              ELSE n1
    IN  IF n2 = <<>> \/ Len(n2) < 2 THEN GamePrefix \o title_id ELSE n2

(***************************************************************************)
(* The files a scan can meet.  Sizes are in MB; stat_fails marks a file    *)
(* whose stat() raises.                                                    *)
(***************************************************************************)
Pre13A == <<"0","1","0","0","A","B","C","D","E","F","0","0","0">>

Pre13B == <<"0","1","0","0","1","2","3","4","5","6","7","8","9">>

IdA000 == Pre13A \o <<"0","0","0">>

IdA800 == Pre13A \o <<"8","0","0">>

IdA001 == Pre13A \o <<"0","0","1">>

IdA002 == Pre13A \o <<"0","0","2">>

IdB000 == Pre13B \o <<"0","0","0">>

IdB800 == Pre13B \o <<"8","0","0">>

IdA010 == Pre13A \o <<"0","1","0">>

IdALower == <<"0","1","0","0","a","b","c","d","e","f","0","0","0","8","0","0">>

Br(id) == <<"[">> \o id \o <<"]">>

ExtXci == <<".","x","c","i">>

ExtXcz == <<".","x","c","z">>

ExtNsp == <<".","n","s","p">>

DirGameX == <<"G","a","m","e","X">>

DirQ == <<"Q","u","e","s","t">>

DirA == <<"A","l","l">>

DirB == <<"B","o","x">>

DirUpd == <<"u","p","d","a","t","e","s">>

DirX == <<"X">>

DirHid == <<".","h","i","d">>

File(parts, size, stat_fails) ==
    [parts |-> parts, size |-> size, stat_fails |-> stat_fails]

Catalogue ==
    << File(<<DirGameX, DirGameX \o Br(IdA000) \o ExtXci>>, 500, FALSE),
       File(<<DirGameX, DirGameX \o <<"_","u","p","d","a","t","e">> \o Br(IdA800)
                        \o <<"_","v","2",".","0",".","0">> \o ExtNsp>>, 80, FALSE),
       File(<<DirGameX, DirGameX \o <<"_","d","l","c","1">> \o Br(IdA001) \o ExtNsp>>,
            20, FALSE),
       File(<<DirGameX, DirGameX \o Br(IdA000) \o ExtNsp>>, 700, FALSE),
       File(<<DirGameX, DirGameX \o Br(IdA000) \o ExtXcz>>, 600, TRUE),
       File(<<DirQ, Br(IdALower) \o ExtNsp>>, 90, FALSE),
       File(<<<<"p","l","a","i","n">> \o ExtNsp>>, 10, FALSE),
       File(<<<<"Z","e","t","a","_","v","1",".","2">> \o Br(IdB000) \o ExtXci>>,
            300, FALSE),
       File(<<DirA, DirB, <<"D","e","e","p">> \o Br(IdB000) \o ExtNsp>>, 200, FALSE),
       File(<<DirGameX, <<"D","L","C","_","u","p","d","a","t","e">> \o Br(IdA800)
                        \o ExtNsp>>, 30, FALSE),
       File(<<DirUpd, <<"G","a","m","e">> \o Br(IdB000) \o ExtNsp>>, 400, FALSE),
       File(<<DirGameX, <<"e","x","t","r","a">> \o ExtNsp>>, 50, FALSE),
       File(<<DirHid, IdB800 \o ExtNsp>>, 40, FALSE),
       File(<<DirQ, <<"A","d","d">> \o Br(IdA002) \o ExtNsp>>, 25, FALSE),
       File(<<IdA000, <<"N","e","o","(","E","U",")","[","x","]","_","v","3",".","1">>
                      \o ExtNsp>>, 150, FALSE),
       File(<<DirX, <<"S","o","l","o">> \o Br(IdA010) \o ExtNsp>>, 900, FALSE) >>

FileIds == 1..Len(Catalogue)

PartsOf(f) == Catalogue[f].parts

\* file_path.stat().st_size, where it does not raise
SizeOf(f) == Catalogue[f].size

StatFails(f) == Catalogue[f].stat_fails

\* what scan_directory computes for each file before it places it
TitleIdTable == [f \in FileIds |-> extract_title_id(PathStr(PartsOf(f)))]

IsDlcTable == [f \in FileIds |-> is_dlc_file(PartsOf(f))]

IsUpdateTable == [f \in FileIds |-> is_update_file(PartsOf(f))]

NameTable ==
    [f \in FileIds |->
        IF TitleIdTable[f] # None THEN ResolveName(PartsOf(f), TitleIdTable[f])
        ELSE ParentDirOf(PartsOf(f))]

(***************************************************************************)
(* Python dicts keep insertion order: a dict is a sequence of entries,     *)
(* each with its key.                                                      *)
(***************************************************************************)
Has(d, k) == \E n \in 1..Len(d) : d[n].key = k

KeyIdx(d, k) == CHOOSE n \in 1..Len(d) : d[n].key = k

Get(d, k) == d[KeyIdx(d, k)]

\* d[e.key] = e
Put(d, e) == IF Has(d, e.key) THEN [d EXCEPT ![KeyIdx(d, e.key)] = e] ELSE Append(d, e)

DirPrefix == <<"D","I","R","_">>

(***************************************************************************)
(* scan_directory, first pass (lines 211-313): one file.                   *)
(***************************************************************************)
NewRaw(key, name, base_id, dir) ==
    [key |-> key, base |-> NoFile, updates |-> <<>>, dlcs |-> <<>>,
     name |-> name, base_id |-> base_id, dir |-> dir]

\* the is_dlc / is_update / base decision with the update test made first
KindOf_update_first(f) ==
    IF IsUpdateTable[f] THEN "update" ELSE IF IsDlcTable[f] THEN "dlc" ELSE "base"

\* lines 270-277: if is_dlc ... elif is_update ... else
KindOf(f) ==
    IF IsDlcTable[f] THEN "dlc" ELSE IF IsUpdateTable[f] THEN "update" ELSE "base"

\* lines 276 and 305 with the comparison turned round
ReplacesBase_smaller(f, old) == SizeOf(f) < SizeOf(old)

\* lines 276 and 305: file_path.stat().st_size > base.stat().st_size
ReplacesBase(f, old) == SizeOf(f) > SizeOf(old)

\* lines 269-277 and 298-306: the file is filed in the bucket of `key`;
\* raised tells that a stat() raised, which leaves the bucket as it was
PlaceFile(raw, key, f) ==
    LET e == Get(raw, key)
        n == KeyIdx(raw, key)
    IN  CASE KindOf(f) = "dlc" ->
               [raw |-> [raw EXCEPT ![n].dlcs = Append(e.dlcs, f)], raised |-> FALSE]
          [] KindOf(f) = "update" ->
               [raw |-> [raw EXCEPT ![n].updates = Append(e.updates, f)],
                raised |-> FALSE]
          [] OTHER ->
               IF e.base = NoFile
               THEN [raw |-> [raw EXCEPT ![n].base = f], raised |-> FALSE]
               ELSE IF StatFails(f) \/ StatFails(e.base)
               THEN [raw |-> raw, raised |-> TRUE]
               ELSE IF ReplacesBase(f, e.base)
               THEN [raw |-> [raw EXCEPT ![n].base = f], raised |-> FALSE]
               ELSE [raw |-> raw, raised |-> FALSE]

\* lines 253-256
AddRelated(bmap, base_title_id, title_id) ==
    LET m1 == IF Has(bmap, base_title_id) THEN bmap
              ELSE Append(bmap, [key |-> base_title_id, ids |-> <<>>])
        n  == KeyIdx(m1, base_title_id)
    IN  IF \E j \in 1..Len(m1[n].ids) : m1[n].ids[j] = title_id
        THEN m1
        ELSE [m1 EXCEPT ![n].ids = Append(m1[n].ids, title_id)]

ScanFile ==
    /\ pc = "scan"
    /\ idx <= Len(all_files)
    /\ LET f          == all_files[idx]
           title_id   == TitleIdTable[f]
           parent_dir == ParentDirOf(PartsOf(f))
       IN  IF title_id # None
           THEN LET base_title_id == extract_base_title_id(title_id)
                    raw1 == IF Has(raw_files, title_id) THEN raw_files
                            ELSE Append(raw_files,
                                        NewRaw(title_id, NameTable[f],
                                               base_title_id, parent_dir))
                IN  /\ base_id_map' = AddRelated(base_id_map, base_title_id, title_id)
                    /\ raw_files' = PlaceFile(raw1, title_id, f).raw
           ELSE IF parent_dir # <<>>
           THEN LET fake_id == DirPrefix \o parent_dir
                    raw1 == IF Has(raw_files, fake_id) THEN raw_files
                            ELSE Append(raw_files,
                                        NewRaw(fake_id, parent_dir, fake_id, parent_dir))
                    placed == PlaceFile(raw1, fake_id, f)
                IN  /\ raw_files' = placed.raw
                    /\ base_id_map' =
                         IF placed.raised \/ Has(base_id_map, fake_id) THEN base_id_map
                         ELSE Append(base_id_map,
                                     [key |-> fake_id, ids |-> <<fake_id>>])
           ELSE UNCHANGED <<raw_files, base_id_map>>
    /\ idx' = idx + 1
    /\ UNCHANGED <<all_files, pc, dir_groups, game_files, ex_name, ex_result, mainVars, mergeVars, guiVars>>

(***************************************************************************)
(* Lines 315-322: the identifiers of each directory.                       *)
(***************************************************************************)
RECURSIVE DirGroupsOf(_, _)
DirGroupsOf(raw, groups) ==
    IF raw = <<>> THEN groups
    ELSE LET info     == Head(raw)
             dir_name == info.dir
         IN  IF dir_name # <<>> /\ ~StartsWith(dir_name, <<".">>)
             THEN LET g1 == IF Has(groups, dir_name) THEN groups
                            ELSE Append(groups, [key |-> dir_name, ids |-> <<>>])
                      n  == KeyIdx(g1, dir_name)
                  IN  DirGroupsOf(Tail(raw),
                                  [g1 EXCEPT ![n].ids = Append(g1[n].ids, info.key)])
             ELSE DirGroupsOf(Tail(raw), groups)

BuildDirGroups ==
    /\ pc = "scan"
    /\ idx > Len(all_files)
    /\ dir_groups' = DirGroupsOf(raw_files, <<>>)
    /\ pc' = "dirs"
    /\ idx' = 1
    /\ UNCHANGED <<all_files, raw_files, base_id_map, game_files, ex_name, ex_result, mainVars, mergeVars, guiVars>>

(***************************************************************************)
(* Lines 324-358: one directory of dir_groups.                             *)
(***************************************************************************)
NewGame(key, base, updates, dlcs, name) ==
    [key |-> key, base |-> base, updates |-> updates, dlcs |-> dlcs, name |-> name]

\* lines 339-349: the identifiers of one directory folded into its entry;
\* a stat() that raises ends the loop where it stands
RECURSIVE DirFold(_, _, _)
DirFold(raw, title_ids, acc) ==
    IF title_ids = <<>> \/ acc.raised THEN acc
    ELSE LET r == Get(raw, Head(title_ids))
             raises == /\ r.base # NoFile
                       /\ acc.base # NoFile
                       /\ (StatFails(r.base) \/ StatFails(acc.base))
             base == IF r.base = NoFile THEN acc.base
                     ELSE IF acc.base = NoFile THEN r.base
                     ELSE IF SizeOf(r.base) > SizeOf(acc.base) THEN r.base
                     ELSE acc.base
         IN  IF raises
             THEN [acc EXCEPT !.raised = TRUE]
             ELSE DirFold(raw, Tail(title_ids),
                          [base |-> base, updates |-> acc.updates \o r.updates,
                           dlcs |-> acc.dlcs \o r.dlcs, raised |-> FALSE])

MergeDir ==
    /\ pc = "dirs"
    /\ idx <= Len(dir_groups)
    /\ LET dir_name  == dir_groups[idx].key
           title_ids == dir_groups[idx].ids
       IN  IF Len(title_ids) > 1
           THEN LET dir_group_id == DirPrefix \o dir_name
                    acc == DirFold(raw_files, title_ids,
                                   [base |-> NoFile, updates |-> <<>>, dlcs |-> <<>>,
                                    raised |-> FALSE])
                IN  /\ game_files' = Put(game_files,
                                         NewGame(dir_group_id, acc.base, acc.updates,
                                                 acc.dlcs, dir_name))
                    /\ pc' = IF acc.raised THEN "failed" ELSE "dirs"
           ELSE LET r == Get(raw_files, title_ids[1])
                IN  /\ game_files' = Put(game_files,
                                         NewGame(r.key, r.base, r.updates, r.dlcs, r.name))
                    /\ pc' = "dirs"
    /\ idx' = idx + 1
    /\ UNCHANGED <<all_files, raw_files, base_id_map, dir_groups, ex_name, ex_result, mainVars, mergeVars, guiVars>>

(***************************************************************************)
(* Lines 360-411: one base identifier of base_id_map.                      *)
(***************************************************************************)
Suffix000 == <<"0","0","0">>

\* lines 403-411: updates, DLC and a missing base taken from every related id
RECURSIVE RelatedFold(_, _, _)
RelatedFold(raw, related_ids, g) ==
    IF related_ids = <<>> THEN g
    ELSE LET r == Get(raw, Head(related_ids))
         IN  RelatedFold(raw, Tail(related_ids),
                         [g EXCEPT !.updates = g.updates \o r.updates,
                                   !.dlcs = g.dlcs \o r.dlcs,
                                   !.base = IF g.base = NoFile /\ r.base # NoFile
                                            THEN r.base ELSE g.base])

\* lines 366-392 without the first loop: the first identifier with a base
MainGameIdx_first_with_base(raw, related_ids) ==
    LET withBase == {j \in 1..Len(related_ids) : Get(raw, related_ids[j]).base # NoFile}
    IN  IF withBase # {} THEN Min(withBase) ELSE 1

\* lines 366-392: the first identifier ending in 000 that has a base, else
\* the first identifier that has a base, else the first identifier
MainGameIdx(raw, related_ids) ==
    LET with000 == {j \in 1..Len(related_ids) :
                       /\ EndsWith(related_ids[j], Suffix000)
                       /\ Get(raw, related_ids[j]).base # NoFile}
        withBase == {j \in 1..Len(related_ids) : Get(raw, related_ids[j]).base # NoFile}
    IN  IF with000 # {} THEN Min(with000)
        ELSE IF withBase # {} THEN Min(withBase)
        ELSE 1

\* lines 366-411 with the entry starting from the main identifier's own
\* lists (lines 397-400 are empty lists in the source)
BaseIdGroup_seeded(raw, base_id, related_ids) ==
    LET main_game_id == related_ids[MainGameIdx(raw, related_ids)]
        base_file == Get(raw, main_game_id).base
    IN  RelatedFold(raw, related_ids,
                    NewGame(base_id, base_file, Get(raw, main_game_id).updates,
                            Get(raw, main_game_id).dlcs, Get(raw, main_game_id).name))

\* lines 366-411
BaseIdGroup(raw, base_id, related_ids) ==
    LET main_game_id == related_ids[MainGameIdx(raw, related_ids)]
        base_file == Get(raw, main_game_id).base
    IN  RelatedFold(raw, related_ids,
                    NewGame(base_id, base_file, <<>>, <<>>, Get(raw, main_game_id).name))

\* line 363: if base_id.startswith("DIR_") or base_id in game_files: continue
SkipBaseId(games, base_id) == StartsWith(base_id, DirPrefix) \/ Has(games, base_id)

AtBaseIds ==
    \/ pc = "ids"
    \/ pc = "dirs" /\ idx > Len(dir_groups)

BaseIdx == IF pc = "ids" THEN idx ELSE 1

MergeBaseId ==
    /\ AtBaseIds
    /\ BaseIdx <= Len(base_id_map)
    /\ LET base_id     == base_id_map[BaseIdx].key
           related_ids == base_id_map[BaseIdx].ids
       IN  game_files' =
             IF SkipBaseId(game_files, base_id) \/ related_ids = <<>>
             THEN game_files
             ELSE Put(game_files, BaseIdGroup(raw_files, base_id, related_ids))
    /\ pc' = "ids"
    /\ idx' = BaseIdx + 1
    /\ UNCHANGED <<all_files, raw_files, base_id_map, dir_groups, ex_name, ex_result, mainVars, mergeVars, guiVars>>

\* line 437: return game_files
Return ==
    /\ AtBaseIds
    /\ BaseIdx > Len(base_id_map)
    /\ pc' = "done"
    /\ UNCHANGED <<all_files, idx, raw_files, base_id_map, dir_groups, game_files,
                   ex_name, ex_result, mainVars, mergeVars, guiVars>>

(***************************************************************************)
(* The scan of a directory tree: the files found, in the order found.      *)
(***************************************************************************)
\* main before it has read its arguments; no merge_files call made yet
NoArgs == [scan_only |-> FALSE, game_id |-> None]

\* the locals of merge_files while no call is under way
NoCur ==
    [key |-> None, base |-> NoFile, latest_update |-> NoFile, dlcs |-> <<>>,
     output |-> None, direct_copy_mode |-> FALSE, worker |-> 0, copied |-> "no"]

\* no merge under way, no thread started, OUTPUT and TEMP empty
MergeInit ==
    /\ mpc = "idle"
    /\ cur = NoCur
    /\ workers = <<>>
    /\ output_dir = <<>>
    /\ backup_dir = <<>>
    /\ work_dirs = <<>>

\* lines 74-80 of switch_gui.py: the scan button is enabled, the merge
\* button disabled; the list is empty and no thread has been started
GuiInit ==
    /\ scan_button = "normal"
    /\ merge_button = "disabled"
    /\ game_tree = FALSE
    /\ gui_threads = <<>>

MainInit ==
    /\ args = NoArgs
    /\ reported = <<>>
    /\ merge_log = <<>>
    /\ prev_result = <<>>
    /\ runs = 1
    /\ MergeInit
    /\ GuiInit

RECURSIVE FileSeqs(_)
FileSeqs(n) ==
    IF n = 0 THEN {<<>>}
    ELSE LET S == FileSeqs(n - 1)
         IN  S \cup {Append(q, f) : <<q, f>> \in
                        {<<q, f>> \in S \X FileIds :
                            \A k \in 1..Len(q) : q[k] # f}}

Init ==
    /\ all_files \in FileSeqs(MaxFiles)
    /\ pc = "scan"
    /\ idx = 1
    /\ raw_files = <<>>
    /\ base_id_map = <<>>
    /\ dir_groups = <<>>
    /\ game_files = <<>>
    /\ ex_name = <<>>
    /\ ex_result = None
    /\ MainInit

Next == ScanFile \/ BuildDirGroups \/ MergeDir \/ MergeBaseId \/ Return

Spec == Init /\ [][Next]_vars

(***************************************************************************)
(* extract_title_id on its own: names put together from pieces.            *)
(***************************************************************************)
Pieces ==
    { Br(IdA000), Br(IdALower), IdB800, <<"[">>, <<"]">>, <<"x">>, <<"0">> }

RECURSIVE NamesUpTo(_)
NamesUpTo(n) ==
    IF n = 0 THEN {<<>>}
    ELSE LET S == NamesUpTo(n - 1)
         IN  S \cup {q \o p : <<q, p>> \in S \X Pieces}

InitExtract ==
    /\ ex_name \in NamesUpTo(MaxPieces)
    /\ ex_result = None
    /\ pc = "ex_call"
    /\ all_files = <<>>
    /\ idx = 1
    /\ raw_files = <<>>
    /\ base_id_map = <<>>
    /\ dir_groups = <<>>
    /\ game_files = <<>>
    /\ MainInit

ExtractTitleId ==
    /\ pc = "ex_call"
    /\ ex_result' = extract_title_id(ex_name)
    /\ pc' = "ex_done"
    /\ UNCHANGED <<all_files, idx, raw_files, base_id_map, dir_groups, game_files,
                   ex_name, mainVars, mergeVars, guiVars>>

NextExtract == ExtractTitleId

SpecExtract == InitExtract /\ [][NextExtract]_vars

(***************************************************************************)
(* merge_files and main: what is merged once the scan has returned.        *)
(***************************************************************************)
\* Path.stem: the final component without its last suffix
Stem(name) ==
    LET dots == {k \in 2..Len(name) : name[k] = "."}
    IN  IF dots = {} THEN name
        ELSE Slice(name, 1, (CHOOSE k \in dots : \A j \in dots : j <= k) - 1)

\* the position after a match of (\d+\.\d+(\.\d+)?) that starts at k, 0 if none
VersionEnd(s, k) ==
    LET a == DigitsEnd(s, k)
        b == DigitsEnd(s, a + 1)
        c == DigitsEnd(s, b + 1)
    IN  IF a = k \/ a > Len(s) \/ s[a] # "." \/ b = a + 1 THEN 0
        ELSE IF b <= Len(s) /\ s[b] = "." /\ c > b + 1 THEN c
        ELSE b

\* lines 643-648: re.search(r'v?(\d+\.\d+(\.\d+)?)', file_path.stem), group 1
extract_version(name) ==
    LET s == Stem(name)
        starts == {k \in 1..Len(s) : VersionEnd(s, k) # 0}
    IN  IF starts = {} THEN None
        ELSE LET k == Min(starts) IN Slice(s, k, VersionEnd(s, k) - 1)

ExtractVersionTable == [f \in FileIds |-> extract_version(PathName(PartsOf(f)))]

\* line 518 with min in the place of max
LatestUpdate_smallest(updates) ==
    LET best == {k \in 1..Len(updates) :
                    \A j \in 1..Len(updates) : SizeOf(updates[j]) >= SizeOf(updates[k])}
    IN  updates[Min(best)]

\* line 518: max(updates, key=lambda f: f.stat().st_size), the first of the
\* largest in list order
LatestUpdate(updates) ==
    LET best == {k \in 1..Len(updates) :
                    \A j \in 1..Len(updates) : SizeOf(updates[j]) <= SizeOf(updates[k])}
    IN  updates[Min(best)]

\* str() of a count
RECURSIVE NatStr(_)
NatStr(n) ==
    LET d == <<"0", "1", "2", "3", "4", "5", "6", "7", "8", "9">>
    IN  IF n < 10 THEN <<d[n + 1]>> ELSE NatStr(n \div 10) \o <<d[(n % 10) + 1]>>

\* line 536: the suffix used when the update's name carries no version
UpdatedSuffix == <<"_", "U+66F4", "U+65B0", "U+7248">>

\* line 542: the characters re.sub removes from the output file name
SpecialChars == {"\\", "/", ":", "*", "?", "\"", "<", ">", "|"}

\* lines 529-543
OutputFilename(game_name, latest_update, dlcs) ==
    LET ver == IF latest_update = NoFile THEN None ELSE ExtractVersionTable[latest_update]
        a == IF latest_update = NoFile THEN game_name
             ELSE IF ver # None THEN game_name \o <<"_", "v">> \o ver
             ELSE game_name \o UpdatedSuffix
        b == IF dlcs # <<>> THEN a \o <<"_">> \o NatStr(Len(dlcs)) \o <<"D", "L", "C">>
             ELSE a
    IN  SelectSeq(b, LAMBDA c : c \notin SpecialChars) \o ExtXci

\* how the merge tool's worker thread ends (lines 564-609)
Outcomes == {"tool_ok", "tool_failed", "timeout", "thread_error"}

\* lines 500-503 with the updates list cut down to the update selected
FilesDictAfter_resolved(g, latest_update) ==
    [g EXCEPT !.updates = IF latest_update = NoFile THEN <<>> ELSE <<latest_update>>]

\* lines 500-503: files_dict is only read; no line of merge_files or of
\* _merge_with_tools assigns to it or to one of its lists
FilesDictAfter(g, latest_update) == g

\* one call of merge_files, as the record of what it did; after is the
\* files_dict as the call leaves it
MergeCall(g, outcome, latest_update, output, handed) ==
    [key |-> g.key, base |-> g.base, updates |-> g.updates, dlcs |-> g.dlcs,
     outcome |-> outcome, latest_update |-> latest_update, output |-> output,
     handed |-> handed, after |-> FilesDictAfter(g, latest_update)]

\* lines 497-641: merge_files(title_id, files_dict); handed is what reaches
\* _merge_with_tools as its update_file argument (line 576)
merge_files(g, outcome) ==
    IF g.base = NoFile THEN MergeCall(g, "no_base", NoFile, None, <<>>)
    ELSE IF \E k \in 1..Len(g.updates) : StatFails(g.updates[k])
    THEN MergeCall(g, "error", NoFile, None, <<>>)
    ELSE LET latest_update == IF g.updates # <<>> THEN LatestUpdate(g.updates) ELSE NoFile
         IN  MergeCall(g, outcome, latest_update,
                       OutputFilename(g.name, latest_update, g.dlcs),
                       IF latest_update = NoFile THEN <<>> ELSE <<latest_update>>)

\* a call that went past the checks and started the worker thread
Started(call) == call.outcome \in Outcomes

\* lines 599-609: direct_copy_mode
DirectCopyMode(call) == call.outcome \in {"tool_failed", "timeout", "thread_error"}

\* the values of --game-id tried
Terms == {<<"G", "a", "m", "e", "X">>, <<"8", "0", "0">>, <<"a", "L", "L">>}

\* lines 1137-1143 without the lower() calls
MatchingGames_case_sensitive(games, game_id) ==
    LET search_term == game_id
    IN  SelectSeq(games, LAMBDA g :
            Contains(g.key, search_term) \/ Contains(g.name, search_term))

\* lines 1136-1143: matching_games
MatchingGames(games, game_id) ==
    LET search_term == Lower(game_id)
    IN  SelectSeq(games, LAMBDA g :
            Contains(Lower(g.key), search_term) \/ Contains(Lower(g.name), search_term))

\* lines 1129-1131: --scan-only
MainScanOnly ==
    /\ pc = "done"
    /\ args = NoArgs
    /\ \E game_id \in Terms \cup {None} :
          args' = [scan_only |-> TRUE, game_id |-> game_id]
    /\ pc' = "exit_0"
    /\ UNCHANGED <<all_files, idx, raw_files, base_id_map, dir_groups, game_files,
                   ex_name, ex_result, reported, merge_log, prev_result, runs, mergeVars, guiVars>>

\* lines 1151-1158 with the group dropped when it has no base file
SelectedCall_skip_no_base(matching_games) ==
    Len(matching_games) = 1 /\ matching_games[1].base # NoFile

\* lines 1151-1158: merge_files is called when exactly one group matches
SelectedCall(matching_games) ==
    Len(matching_games) = 1

\* lines 1134-1160: --game-id
MainSelect ==
    /\ pc = "done"
    /\ args = NoArgs
    /\ \E game_id \in Terms :
          LET matching_games == MatchingGames(game_files, game_id)
          IN  /\ args' = [scan_only |-> FALSE, game_id |-> game_id]
              /\ reported' = [k \in 1..Len(matching_games) |-> matching_games[k].key]
              /\ IF SelectedCall(matching_games)
                 THEN \E outcome \in Outcomes :
                        LET call == merge_files(matching_games[1], outcome)
                        IN  /\ merge_log' = Append(merge_log, call)
                            /\ game_files' =
                                  [game_files EXCEPT ![KeyIdx(game_files, call.key)] =
                                                        call.after]
                 ELSE merge_log' = merge_log /\ game_files' = game_files
    /\ pc' = "exit_0"
    /\ UNCHANGED <<all_files, idx, raw_files, base_id_map, dir_groups,
                   ex_name, ex_result, prev_result, runs, mergeVars, guiVars>>

\* line 1161: neither --scan-only nor --game-id
MainBatch ==
    /\ pc = "done"
    /\ args = NoArgs
    /\ pc' = "batch"
    /\ idx' = 1
    /\ UNCHANGED <<all_files, raw_files, base_id_map, dir_groups, game_files,
                   ex_name, ex_result, mainVars, mergeVars, guiVars>>

\* lines 1087-1095 of process_directory in the place of lines 1163-1168
BatchGames_deleting(games, k) ==
    IF games[k].base # NoFile THEN games
    ELSE SelectSeq(games, LAMBDA g : g.key # games[k].key)

\* lines 1163-1168: the loop leaves game_files as it is
BatchGames(games, k) == games

\* lines 1163-1168: one turn of the loop over game_files
BatchStep ==
    /\ pc = "batch"
    /\ idx <= Len(game_files)
    /\ IF game_files[idx].base # NoFile
       THEN \E outcome \in Outcomes :
              LET call == merge_files(game_files[idx], outcome)
              IN  /\ merge_log' = Append(merge_log, call)
                  /\ game_files' =
                        BatchGames([game_files EXCEPT ![idx] = call.after], idx)
       ELSE /\ merge_log' = merge_log
            /\ game_files' = BatchGames(game_files, idx)
    /\ idx' = IF Len(game_files') = Len(game_files) THEN idx + 1 ELSE idx
    /\ UNCHANGED <<all_files, pc, raw_files, base_id_map, dir_groups,
                   ex_name, ex_result, args, reported, prev_result, runs, mergeVars, guiVars>>

\* line 1170: the loop is over
BatchEnd ==
    /\ pc = "batch"
    /\ idx > Len(game_files)
    /\ pc' = "exit_0"
    /\ UNCHANGED <<all_files, idx, raw_files, base_id_map, dir_groups, game_files,
                   ex_name, ex_result, mainVars, mergeVars, guiVars>>

\* lines 1172-1177: an exception out of scan_directory ends main with exit 1
MainAbort ==
    /\ pc = "failed"
    /\ pc' = "exit_1"
    /\ UNCHANGED <<all_files, idx, raw_files, base_id_map, dir_groups, game_files,
                   ex_name, ex_result, mainVars, mergeVars, guiVars>>

\* the files main is run on
MainFileIds == {1, 2, 5, 6, 9, 12, 14}

InitMain ==
    /\ all_files \in {q \in FileSeqs(MaxFiles) : \A k \in 1..Len(q) : q[k] \in MainFileIds}
    /\ pc = "scan"
    /\ idx = 1
    /\ raw_files = <<>>
    /\ base_id_map = <<>>
    /\ dir_groups = <<>>
    /\ game_files = <<>>
    /\ ex_name = <<>>
    /\ ex_result = None
    /\ MainInit

NextMain ==
    \/ ScanFile \/ BuildDirGroups \/ MergeDir \/ MergeBaseId \/ Return
    \/ MainScanOnly \/ MainSelect \/ MainBatch \/ BatchStep \/ BatchEnd \/ MainAbort

SpecMain == InitMain /\ [][NextMain]_vars

(***************************************************************************)
(* scan_directory called again on the same, unchanged files.               *)
(***************************************************************************)
\* the calls of scan_directory made in a row
MaxScans == 2

\* lines 181-185 with raw_files kept from the call before, as an attribute
\* of the merger would be
FreshRaw_kept(raw) == raw

\* lines 181-185: raw_files is a local, empty on every entry
FreshRaw(raw) == <<>>

\* line 179: the next call, on the files of the call that has returned
Rescan ==
    /\ pc = "done"
    /\ runs < MaxScans
    /\ runs' = runs + 1
    /\ prev_result' = game_files
    /\ pc' = "scan"
    /\ idx' = 1
    /\ raw_files' = FreshRaw(raw_files)
    /\ base_id_map' = <<>>
    /\ dir_groups' = <<>>
    /\ game_files' = <<>>
    /\ UNCHANGED <<all_files, ex_name, ex_result, args, reported, merge_log, mergeVars, guiVars>>

NextRescan ==
    \/ ScanFile \/ BuildDirGroups \/ MergeDir \/ MergeBaseId \/ Return
    \/ Rescan

SpecRescan == InitMain /\ [][NextRescan]_vars

(***************************************************************************)
(* scan_directory called again on the same files found in another order.   *)
(***************************************************************************)
\* the orders rglob may deliver the files of q in
Reorderings(q) ==
    {[k \in 1..Len(q) |-> q[p[k]]] :
        p \in {f \in [1..Len(q) -> 1..Len(q)] :
                  \A a, b \in 1..Len(q) : f[a] = f[b] => a = b}}

\* lines 189-192: the next call finds the same files in some order
Reorder ==
    /\ pc = "done"
    /\ runs < MaxScans
    /\ runs' = runs + 1
    /\ prev_result' = game_files
    /\ all_files' \in Reorderings(all_files)
    /\ pc' = "scan"
    /\ idx' = 1
    /\ raw_files' = FreshRaw(raw_files)
    /\ base_id_map' = <<>>
    /\ dir_groups' = <<>>
    /\ game_files' = <<>>
    /\ UNCHANGED <<ex_name, ex_result, args, reported, merge_log, mergeVars, guiVars>>

NextReorder ==
    \/ ScanFile \/ BuildDirGroups \/ MergeDir \/ MergeBaseId \/ Return
    \/ Reorder

SpecReorder == InitMain /\ [][NextReorder]_vars

(***************************************************************************)
(* merge_files step by step (lines 497-641) with the worker threads it     *)
(* starts (_merge_with_tools, lines 650-714) and the files it writes.  A   *)
(* directory is a dict from file name to what was written there.           *)
(***************************************************************************)
\* line 616: 1024 * 1024
MiB == 1024 * 1024

\* the sizes of a file hactoolnet has written: at the limit of line 616 and
\* over it
ToolSizes == {MiB, MiB + 1}

\* glob("**/*.xci"), lines 989, 1040, 1063, 1073
XciTable == [f \in FileIds |-> EndsWith(PathName(PartsOf(f)), ExtXci)]

\* lines 599-606 with a failed worker taken for a successful one
WaitResult_ignoring_failure(merge_done, merge_success) ==
    ~merge_done

\* lines 599-606: direct_copy_mode after the wait
WaitResult(merge_done, merge_success) ==
    IF ~merge_done THEN TRUE
    ELSE IF ~merge_success THEN TRUE
    ELSE FALSE

\* line 616: an output file is there and is larger than 1 MiB
KeepsOutput(dir, output) ==
    Has(dir, output) /\ Get(dir, output).size > MiB

\* lines 989-994 (and 1040-1045, 1063-1067, 1073-1077): the .xci files under
\* TEMP, in TEMP/backup and in the working directories
FallbackFiles ==
    {backup_dir[n].file : n \in {m \in 1..Len(backup_dir) : XciTable[backup_dir[m].file]}}
    \cup {work_dirs[n].xci : n \in {m \in 1..Len(work_dirs) : work_dirs[m].xci # NoFile}}

\* max(base_files, key=size)
BiggestFile(files) == CHOOSE f \in files : \A h \in files : SizeOf(h) <= SizeOf(f)

\* lines 1134-1154: --game-id with exactly one matching group
MergeSelect ==
    /\ pc = "done"
    /\ args = NoArgs
    /\ \E game_id \in Terms :
          LET matching_games == MatchingGames(game_files, game_id)
          IN  /\ SelectedCall(matching_games)
              /\ args' = [scan_only |-> FALSE, game_id |-> game_id]
              /\ reported' = [k \in 1..Len(matching_games) |-> matching_games[k].key]
              /\ idx' = KeyIdx(game_files, matching_games[1].key)
    /\ pc' = "one"
    /\ UNCHANGED <<all_files, raw_files, base_id_map, dir_groups, game_files,
                   ex_name, ex_result, merge_log, prev_result, runs, mergeVars, guiVars>>

\* lines 1163-1168 or 1154, then lines 500-561: main hands the next group to
\* merge_files, which returns at once (no base, or stat raising at line 518)
\* or names the output and backs the base up
MergeBegin ==
    /\ pc \in {"batch", "one"}
    /\ mpc = "idle"
    /\ idx <= Len(game_files)
    /\ LET g == game_files[idx]
       IN  IF g.base = NoFile \/ \E k \in 1..Len(g.updates) : StatFails(g.updates[k])
           THEN /\ pc' = IF pc = "one" THEN "exit_0" ELSE pc
                /\ idx' = IF pc = "one" THEN idx ELSE idx + 1
                /\ UNCHANGED mergeVars
           ELSE LET latest_update ==
                        IF g.updates # <<>> THEN LatestUpdate(g.updates) ELSE NoFile
                IN  /\ cur' = [NoCur EXCEPT
                                  !.key = g.key, !.base = g.base,
                                  !.latest_update = latest_update, !.dlcs = g.dlcs,
                                  !.output = OutputFilename(g.name, latest_update, g.dlcs)]
                    /\ \E backed_up \in BOOLEAN :
                          backup_dir' =
                              IF backed_up
                              THEN Put(backup_dir, [key |-> PathName(PartsOf(g.base)),
                                                    file |-> g.base])
                              ELSE backup_dir
                    /\ mpc' = "thread"
                    /\ UNCHANGED <<pc, idx, workers, output_dir, work_dirs>>
    /\ UNCHANGED <<all_files, raw_files, base_id_map, dir_groups, game_files,
                   ex_name, ex_result, mainVars, guiVars>>

\* lines 564-586 and 607-609: the thread starts, or starting it raises
ThreadStart ==
    /\ mpc = "thread"
    /\ \/ /\ workers' = Append(workers, [output |-> cur.output, base |-> cur.base,
                                         phase |-> "extract", success |-> FALSE,
                                         abandoned |-> FALSE])
          /\ cur' = [cur EXCEPT !.worker = Len(workers) + 1]
          /\ mpc' = "wait"
       \/ /\ workers' = workers
          /\ cur' = [cur EXCEPT !.direct_copy_mode = TRUE]
          /\ mpc' = "copy"
    /\ UNCHANGED <<all_files, pc, idx, raw_files, base_id_map, dir_groups, game_files,
                   ex_name, ex_result, mainVars, output_dir, backup_dir, work_dirs, guiVars>>

\* a daemon thread runs for as long as the process does
Running(w) ==
    /\ pc \notin {"exit_0", "exit_1"}
    /\ w \in 1..Len(workers)

\* lines 654-700: the working directory TEMP/<stem> is made anew and the
\* files are extracted into it; a tool that fails leaves a copy of the file
\* (lines 774, 812, 821, 828), and a copy that fails raises
WorkerExtract(w) ==
    /\ Running(w)
    /\ workers[w].phase = "extract"
    /\ \E r \in {"extracted", "copied", "raise"} :
          /\ work_dirs' =
                Put(work_dirs,
                    [key |-> workers[w].output,
                     xci |-> IF r = "copied" /\ XciTable[workers[w].base]
                             THEN workers[w].base ELSE NoFile])
          /\ workers' = [workers EXCEPT
                            ![w].phase = IF r = "raise" THEN "ended" ELSE "repack"]
    /\ UNCHANGED <<all_files, pc, idx, raw_files, base_id_map, dir_groups, game_files,
                   ex_name, ex_result, mainVars, mpc, cur, output_dir, backup_dir, guiVars>>

\* lines 704-714 with 978-1077 and 577-581: hactoolnet writes the output,
\* or it fails and the biggest .xci under TEMP is copied in its place, or
\* there is none and _repack_as_xci returns all the same; then TEMP/<stem>
\* is removed, which may raise
WorkerRepack(w) ==
    /\ Running(w)
    /\ workers[w].phase = "repack"
    /\ \E written \in BOOLEAN, size \in ToolSizes, raised \in BOOLEAN :
          /\ written \/ size = MiB
          /\ output_dir' =
                IF written
                THEN Put(output_dir, [key |-> workers[w].output, size |-> size,
                                      from |-> NoFile])
                ELSE IF FallbackFiles # {} /\ ~raised
                THEN Put(output_dir, [key |-> workers[w].output,
                                      size |-> SizeOf(BiggestFile(FallbackFiles)),
                                      from |-> BiggestFile(FallbackFiles)])
                ELSE output_dir
          /\ work_dirs' =
                IF written /\ raised THEN work_dirs
                ELSE SelectSeq(work_dirs, LAMBDA d : d.key # workers[w].output)
          /\ workers' = [workers EXCEPT ![w].phase = "ended", ![w].success = ~raised]
    /\ UNCHANGED <<all_files, pc, idx, raw_files, base_id_map, dir_groups, game_files,
                   ex_name, ex_result, mainVars, mpc, cur, backup_dir, guiVars>>

\* lines 594-606, merge_done set: the worker has ended
WaitDone ==
    /\ mpc = "wait"
    /\ workers[cur.worker].phase = "ended"
    /\ cur' = [cur EXCEPT !.direct_copy_mode =
                              WaitResult(TRUE, workers[cur.worker].success)]
    /\ mpc' = IF cur'.direct_copy_mode THEN "copy" ELSE "end"
    /\ UNCHANGED <<all_files, pc, idx, raw_files, base_id_map, dir_groups, game_files,
                   ex_name, ex_result, mainVars, workers, output_dir, backup_dir,
                   work_dirs, guiVars>>

\* lines 594-601, merge_done not set after 30 minutes: merge_files goes on
\* and the thread is left running
WaitTimeout ==
    /\ mpc = "wait"
    /\ workers[cur.worker].phase # "ended"
    /\ cur' = [cur EXCEPT !.direct_copy_mode = WaitResult(FALSE, FALSE)]
    /\ mpc' = IF cur'.direct_copy_mode THEN "copy" ELSE "end"
    /\ workers' = [workers EXCEPT ![cur.worker].abandoned = TRUE]
    /\ UNCHANGED <<all_files, pc, idx, raw_files, base_id_map, dir_groups, game_files,
                   ex_name, ex_result, mainVars, output_dir, backup_dir, work_dirs, guiVars>>

\* lines 612-634: the direct copy
DirectCopy ==
    /\ mpc = "copy"
    /\ IF KeepsOutput(output_dir, cur.output)
       THEN /\ output_dir' = output_dir
            /\ cur' = [cur EXCEPT !.copied = "kept"]
       ELSE \/ /\ output_dir' = Put(output_dir, [key |-> cur.output,
                                                 size |-> SizeOf(cur.base),
                                                 from |-> cur.base])
               /\ cur' = [cur EXCEPT !.copied = "base"]
            \/ /\ Has(backup_dir, PathName(PartsOf(cur.base)))
               /\ LET backup_base == Get(backup_dir, PathName(PartsOf(cur.base))).file
                  IN  output_dir' = Put(output_dir, [key |-> cur.output,
                                                     size |-> SizeOf(backup_base),
                                                     from |-> backup_base])
               /\ cur' = [cur EXCEPT !.copied = "backup"]
            \/ /\ output_dir' = output_dir
               /\ cur' = [cur EXCEPT !.copied = "failed"]
    /\ mpc' = "end"
    /\ UNCHANGED <<all_files, pc, idx, raw_files, base_id_map, dir_groups, game_files,
                   ex_name, ex_result, mainVars, workers, backup_dir, work_dirs, guiVars>>

\* line 636: merge_files returns to main; the threads that have ended are
\* gone, the others run on
MergeReturn ==
    /\ mpc = "end"
    /\ mpc' = "idle"
    /\ cur' = NoCur
    /\ workers' = SelectSeq(workers, LAMBDA t : t.phase # "ended")
    /\ pc' = IF pc = "one" THEN "exit_0" ELSE pc
    /\ idx' = IF pc = "one" THEN idx ELSE idx + 1
    /\ UNCHANGED <<all_files, raw_files, base_id_map, dir_groups, game_files,
                   ex_name, ex_result, mainVars, output_dir, backup_dir, work_dirs, guiVars>>

\* the files the merges are run on
MergeFileIds == {1, 2, 14}

InitMerge ==
    /\ all_files \in {q \in FileSeqs(MaxFiles) : \A k \in 1..Len(q) : q[k] \in MergeFileIds}
    /\ pc = "scan"
    /\ idx = 1
    /\ raw_files = <<>>
    /\ base_id_map = <<>>
    /\ dir_groups = <<>>
    /\ game_files = <<>>
    /\ ex_name = <<>>
    /\ ex_result = None
    /\ MainInit

NextMerge ==
    \/ ScanFile \/ BuildDirGroups \/ MergeDir \/ MergeBaseId \/ Return
    \/ MergeSelect \/ MainBatch \/ MergeBegin \/ ThreadStart
    \/ (\E w \in 1..Len(workers) : WorkerExtract(w))
    \/ (\E w \in 1..Len(workers) : WorkerRepack(w))
    \/ WaitDone \/ WaitTimeout \/ DirectCopy \/ MergeReturn \/ BatchEnd

SpecMerge == InitMerge /\ [][NextMerge]_vars

(***************************************************************************)
(* switch_gui.py: the handlers of the scan button, of the merge button and *)
(* of the context-menu entry, and the background threads they start.  Each *)
(* thread disables buttons, runs switch_rom_merger.py as a subprocess and  *)
(* enables the buttons in its finally clause.                              *)
(***************************************************************************)
\* the background threads alive at a time
MaxThreads == 2

\* the variables of the merger, which the window does not touch
mergerVars ==
    <<all_files, pc, idx, raw_files, base_id_map, dir_groups, game_files,
      ex_name, ex_result, mainVars, mergeVars>>

GuiThread(op) == [op |-> op, at |-> "start"]

\* lines 74 and 322-326, 392: the scan button is pressed; the handler
\* clears the list and starts the thread, the buttons stay as they are
ClickScan ==
    /\ scan_button = "normal"
    /\ Len(gui_threads) < MaxThreads
    /\ game_tree' = FALSE
    /\ gui_threads' = Append(gui_threads, GuiThread("scan"))
    /\ UNCHANGED <<scan_button, merge_button, mergerVars>>

\* lines 78 and 394-401, 459: the merge button is pressed
ClickMerge ==
    /\ merge_button = "normal"
    /\ Len(gui_threads) < MaxThreads
    /\ gui_threads' = Append(gui_threads, GuiThread("merge"))
    /\ UNCHANGED <<scan_button, merge_button, game_tree, mergerVars>>

\* lines 135, 162-166 and 461-474, 534: 'merge selected' of the context
\* menu, which is posted whenever a row of the list is selected
MenuMergeSelected ==
    /\ game_tree
    /\ Len(gui_threads) < MaxThreads
    /\ gui_threads' = Append(gui_threads, GuiThread("selected"))
    /\ UNCHANGED <<scan_button, merge_button, game_tree, mergerVars>>

\* lines 330-331, 405-407, 478-480: the thread disables the buttons
ThreadDisable(t) ==
    /\ gui_threads[t].at = "start"
    /\ scan_button' = "disabled"
    /\ merge_button' = IF gui_threads[t].op = "scan" THEN merge_button ELSE "disabled"
    /\ gui_threads' = [gui_threads EXCEPT ![t].at = "popen"]
    /\ UNCHANGED <<game_tree, mergerVars>>

\* lines 337-344, 413-420, 490-497: the subprocess is started, or Popen
\* raises and the except and finally clauses follow
ThreadPopen(t) ==
    /\ gui_threads[t].at = "popen"
    /\ \E raised \in BOOLEAN :
          gui_threads' = [gui_threads EXCEPT
                             ![t].at = IF raised THEN "finally" ELSE "run"]
    /\ UNCHANGED <<scan_button, merge_button, game_tree, mergerVars>>

\* lines 348-384, 424-450, 500-523: the output is read and the subprocess
\* ends; a scan adds the games it reports to the list and enables the merge
\* button when it exits with 0 and has found one (lines 377-382); 'merge
\* selected' goes on to the next selected game (line 483)
ThreadWait(t) ==
    /\ gui_threads[t].at = "run"
    /\ \E found \in BOOLEAN, ok \in BOOLEAN, more \in BOOLEAN :
          /\ game_tree' = IF gui_threads[t].op = "scan" THEN (game_tree \/ found)
                          ELSE game_tree
          /\ merge_button' = IF gui_threads[t].op = "scan" /\ ok /\ found
                             THEN "normal" ELSE merge_button
          /\ gui_threads' = [gui_threads EXCEPT
                                ![t].at = IF gui_threads[t].op = "selected" /\ more
                                          THEN "popen" ELSE "finally"]
    /\ UNCHANGED <<scan_button, mergerVars>>

\* lines 387-389, 453-456, 528-531: the finally clause; the thread ends
ThreadFinally(t) ==
    /\ gui_threads[t].at = "finally"
    /\ scan_button' = "normal"
    /\ merge_button' = IF gui_threads[t].op = "scan" THEN merge_button ELSE "normal"
    /\ gui_threads' = [k \in 1..(Len(gui_threads) - 1) |->
                          IF k < t THEN gui_threads[k] ELSE gui_threads[k + 1]]
    /\ UNCHANGED <<game_tree, mergerVars>>

InitGui ==
    /\ pc = "gui"
    /\ all_files = <<>>
    /\ idx = 1
    /\ raw_files = <<>>
    /\ base_id_map = <<>>
    /\ dir_groups = <<>>
    /\ game_files = <<>>
    /\ ex_name = <<>>
    /\ ex_result = None
    /\ MainInit

NextGui ==
    \/ ClickScan \/ ClickMerge \/ MenuMergeSelected
    \/ (\E t \in 1..Len(gui_threads) : ThreadDisable(t))
    \/ (\E t \in 1..Len(gui_threads) : ThreadPopen(t))
    \/ (\E t \in 1..Len(gui_threads) : ThreadWait(t))
    \/ (\E t \in 1..Len(gui_threads) : ThreadFinally(t))

SpecGui == InitGui /\ [][NextGui]_vars

(***************************************************************************)
(* Vocabulary of the properties.                                           *)
(***************************************************************************)
Range(q) == {q[k] : k \in 1..Len(q)}

\* the files the first pass has gone through
Scanned ==
    IF pc = "scan" THEN {all_files[k] : k \in 1..(idx - 1)}
    ELSE IF pc \in {"dirs", "ids", "done", "failed", "batch", "one", "exit_0", "exit_1"}
    THEN Range(all_files)
    ELSE {}

GroupFiles(g) ==
    (IF g.base # NoFile THEN {g.base} ELSE {}) \cup Range(g.updates) \cup Range(g.dlcs)

HasId(f) == TitleIdTable[f] # None

FamilyTable == [f \in FileIds |-> extract_base_title_id(TitleIdTable[f])]

FamilyOf(f) == FamilyTable[f]

\* the key of the bucket of raw_files a file is filed in
BucketKeyOf(f) ==
    IF HasId(f) THEN TitleIdTable[f] ELSE DirPrefix \o ParentDirOf(PartsOf(f))

InSomeUpdates(f) ==
    \/ \E n \in 1..Len(raw_files) : f \in Range(raw_files[n].updates)
    \/ \E n \in 1..Len(game_files) : f \in Range(game_files[n].updates)

InSomeDlcs(f) ==
    \/ \E n \in 1..Len(raw_files) : f \in Range(raw_files[n].dlcs)
    \/ \E n \in 1..Len(game_files) : f \in Range(game_files[n].dlcs)

IsSomeBase(f) ==
    \/ \E n \in 1..Len(raw_files) : raw_files[n].base = f
    \/ \E n \in 1..Len(game_files) : game_files[n].base = f

\* placed as Update: among the updates of its bucket, and nowhere a base or a DLC
PlacedAsUpdate(f) ==
    /\ Has(raw_files, BucketKeyOf(f))
    /\ f \in Range(Get(raw_files, BucketKeyOf(f)).updates)
    /\ ~InSomeDlcs(f)
    /\ ~IsSomeBase(f)

\* placed as DLC: among the DLCs of its bucket, and nowhere a base or an update
PlacedAsDlc(f) ==
    /\ Has(raw_files, BucketKeyOf(f))
    /\ f \in Range(Get(raw_files, BucketKeyOf(f)).dlcs)
    /\ ~InSomeUpdates(f)
    /\ ~IsSomeBase(f)

\* placed as Base candidate: its bucket has a base, and the file is nowhere an
\* update or a DLC
PlacedAsBase(f) ==
    /\ Has(raw_files, BucketKeyOf(f))
    /\ Get(raw_files, BucketKeyOf(f)).base # NoFile
    /\ ~InSomeUpdates(f)
    /\ ~InSomeDlcs(f)

PathHasDlcTable == [f \in FileIds |-> Contains(Lower(PathStr(PartsOf(f))), KwDlc)]

PathHasDlc(f) == PathHasDlcTable[f]

NameHasUpdateKeywordTable ==
    [f \in FileIds |->
        \E kw \in UpdateKeywords : Contains(Lower(PathName(PartsOf(f))), kw)]

NameHasUpdateKeyword(f) == NameHasUpdateKeywordTable[f]

\* an update keyword in the file name or in any directory of the path
PathHasUpdateKeywordTable ==
    [f \in FileIds |->
        \E kw \in UpdateKeywords : Contains(Lower(JoinParts(PartsOf(f))), kw)]

PathHasUpdateKeyword(f) == PathHasUpdateKeywordTable[f]

NameByImmediateDirTable ==
    [f \in FileIds |->
        LET d == IF Len(PartsOf(f)) > 1 THEN PartsOf(f)[Len(PartsOf(f)) - 1] ELSE <<>>
        IN  IF d # <<>> /\ d # TitleIdTable[f] THEN d
            ELSE LET n == NameFromFilename(PathName(PartsOf(f)), TitleIdTable[f])
                 IN  IF Len(n) < 2 THEN GamePrefix \o TitleIdTable[f] ELSE n]

IdEnds(f, suffix) == HasId(f) /\ EndsWith(TitleIdTable[f], suffix)

Suffix800 == <<"8","0","0">>

(***************************************************************************)
(* C1.  Scanning a root that holds the one directory GameX/ with the base  *)
(* file, the v2.0.0 update file and the DLC file of one title yields       *)
(* exactly one group, named GameX, with that base, that update and that    *)
(* DLC; and whenever all scanned files lie in one directory and belong to  *)
(* one title family, the result has exactly one group.                     *)
(***************************************************************************)
OneFamilyInOneDir ==
    /\ all_files # <<>>
    /\ \A f \in Range(all_files) :
          /\ Len(PartsOf(f)) = 2
          /\ HasId(f)
          /\ ParentDirOf(PartsOf(f)) = ParentDirOf(PartsOf(all_files[1]))
          /\ FamilyOf(f) = FamilyOf(all_files[1])

C1_OneGroupForGameX ==
    pc = "done" =>
      /\ Range(all_files) = {1, 2, 3} =>
            /\ Len(game_files) = 1
            /\ game_files[1].name = DirGameX
            /\ game_files[1].base = 1
            /\ game_files[1].updates = <<2>>
            /\ game_files[1].dlcs = <<3>>
      /\ OneFamilyInOneDir => Len(game_files) = 1

(***************************************************************************)
(* C2.  In the scan result no file belongs to two groups: the files of any *)
(* two different groups (base, updates, DLCs) are disjoint.                *)
(***************************************************************************)
C2_NoFileInTwoGroups ==
    pc = "done" =>
      \A m, n \in 1..Len(game_files) :
          m # n => GroupFiles(game_files[m]) \cap GroupFiles(game_files[n]) = {}

(***************************************************************************)
(* C3.  For every title family (identifiers with the same base identifier) *)
(* the scan result has one group that holds every Update- and DLC-         *)
(* classified file of the family and, when the family has a base           *)
(* candidate, a base of that family, wherever the files lie.               *)
(***************************************************************************)
FamilyFiles(b) == {f \in Scanned : HasId(f) /\ FamilyOf(f) = b}

C3_FamilyUnited ==
    pc = "done" =>
      \A b \in {FamilyOf(f) : f \in {h \in Scanned : HasId(h)}} :
          \E n \in 1..Len(game_files) :
              LET g == game_files[n]
              IN  /\ \A f \in FamilyFiles(b) :
                        KindOf(f) # "base" => f \in Range(g.updates) \cup Range(g.dlcs)
                  /\ (\E f \in FamilyFiles(b) : KindOf(f) = "base") =>
                        g.base \in FamilyFiles(b)

(***************************************************************************)
(* C4.  No two groups of the scan result have display names that are equal *)
(* after lower-casing and removing every non-alphanumeric character.       *)
(***************************************************************************)
Alnum == Digits \cup Range(LowerAlpha) \cup Range(UpperAlpha)

NormalizedName(name) == Lower(SelectSeq(name, LAMBDA c : c \in Alnum))

C4_UniqueNormalizedNames ==
    pc = "done" =>
      \A m, n \in 1..Len(game_files) :
          m # n => NormalizedName(game_files[m].name) # NormalizedName(game_files[n].name)

(***************************************************************************)
(* C5.  A file without identifier that lies directly in the scanned root   *)
(* is in no bucket and in no group, and no bucket or group is made for it. *)
(***************************************************************************)
RootFileWithoutId(f) == ~HasId(f) /\ Len(PartsOf(f)) = 1

C5_RootFileWithoutIdDropped ==
    \A f \in Scanned :
        RootFileWithoutId(f) =>
          /\ \A n \in 1..Len(raw_files) :
                /\ f \notin GroupFiles(raw_files[n])
                /\ raw_files[n].key # DirPrefix \o PathName(PartsOf(f))
          /\ \A n \in 1..Len(game_files) :
                /\ f \notin GroupFiles(game_files[n])
                /\ game_files[n].key # DirPrefix \o PathName(PartsOf(f))

(***************************************************************************)
(* C6.  As claimed: every scanned file whose identifier ends in 800 is     *)
(* placed as Update, every one whose identifier ends in 000 as Base, and   *)
(* every one whose identifier has digits 14-15 equal to 00 and digit 16    *)
(* not 0 as DLC, whatever else its name or path contains.                  *)
(***************************************************************************)
C6_SuffixAloneDecides ==
    \A f \in Scanned :
        /\ IdEnds(f, Suffix800) => PlacedAsUpdate(f)
        /\ IdEnds(f, Suffix000) => PlacedAsBase(f)
        /\ HasDlcId(TitleIdTable[f]) => PlacedAsDlc(f)

(***************************************************************************)
(* C6, amended.  Among the scanned files whose path does not contain "dlc" *)
(* and whose file name contains no update keyword, one whose identifier    *)
(* ends in 800 is placed as Update and one whose identifier ends in 000 is *)
(* placed as Base candidate; a file whose identifier has digits 14-15      *)
(* equal to 00 and digit 16 not 0 is placed as DLC in every case; and with *)
(* "dlc" in the path a file is placed as DLC whatever its identifier.      *)
(***************************************************************************)
C6_SuffixDecidesWithoutKeywords ==
    \A f \in Scanned :
        /\ (IdEnds(f, Suffix800) /\ ~PathHasDlc(f)) => PlacedAsUpdate(f)
        /\ (IdEnds(f, Suffix000) /\ ~PathHasDlc(f) /\ ~NameHasUpdateKeyword(f))
              => PlacedAsBase(f)
        /\ HasDlcId(TitleIdTable[f]) => PlacedAsDlc(f)
        /\ (HasId(f) /\ PathHasDlc(f)) => PlacedAsDlc(f)

\* a result that holds an update known by its identifier alone, a DLC known by
\* its identifier alone and a base
C6_Witness ==
    /\ pc = "done"
    /\ \E f \in Scanned :
          IdEnds(f, Suffix800) /\ ~NameHasUpdateKeyword(f) /\ PlacedAsUpdate(f)
    /\ \E f \in Scanned :
          HasDlcId(TitleIdTable[f]) /\ ~PathHasDlc(f) /\ PlacedAsDlc(f)
    /\ \E f \in Scanned : IdEnds(f, Suffix000) /\ IsSomeBase(f)

(***************************************************************************)
(* C7.  A scanned file that matches both the DLC rule and the Update rule  *)
(* is placed as DLC: it is in the DLC list of its bucket and in no update  *)
(* list, of a bucket or of a group of the result; a file that matches      *)
(* neither rule is placed as a base candidate.                             *)
(***************************************************************************)
C7_DlcRuleWins ==
    \A f \in Scanned :
        /\ (IsDlcTable[f] /\ IsUpdateTable[f]) => PlacedAsDlc(f)
        /\ (~IsDlcTable[f] /\ ~IsUpdateTable[f]) => PlacedAsBase(f)

\* a result with a DLC that also matches the Update rule
C7_Witness ==
    /\ pc = "done"
    /\ \E f \in Scanned :
          /\ PathHasDlc(f)
          /\ NameHasUpdateKeyword(f)
          /\ IdEnds(f, Suffix800)
          /\ \E n \in 1..Len(game_files) : f \in Range(game_files[n].dlcs)

(***************************************************************************)
(* C8.  As claimed: a scanned file that does not match the DLC rule is     *)
(* placed as Update whenever its file name or a directory of its path      *)
(* contains an update keyword, or its identifier ends in 800.              *)
(***************************************************************************)
C8_UpdateByNameOrPath ==
    \A f \in Scanned :
        (~IsDlcTable[f]
           /\ (PathHasUpdateKeyword(f) \/ IdEnds(f, Suffix800)))
          => PlacedAsUpdate(f)

(***************************************************************************)
(* C8, amended.  A scanned file that does not match the DLC rule is placed *)
(* as Update whenever its file name (not a directory of its path) contains *)
(* an update keyword, or its identifier ends in 800.                       *)
(***************************************************************************)
C8_UpdateByFileName ==
    \A f \in Scanned :
        (~IsDlcTable[f]
           /\ (NameHasUpdateKeyword(f) \/ IdEnds(f, Suffix800)))
          => PlacedAsUpdate(f)

\* a result with an update known by a keyword of its file name alone, its
\* identifier ending in 000
C8_Witness ==
    /\ pc = "done"
    /\ \E f \in Scanned :
          /\ NameHasUpdateKeyword(f)
          /\ IdEnds(f, Suffix000)
          /\ ~PathHasDlc(f)
          /\ \E n \in 1..Len(game_files) : f \in Range(game_files[n].updates)

(***************************************************************************)
(* C9.  For a name with a run of exactly 16 hex digits between "[" and "]" *)
(* extract_title_id returns the first such run in upper case, also when an *)
(* unbracketed run of 16 hex digits stands earlier in the name; for a name *)
(* with no run of 16 hex digits it returns None.                           *)
(***************************************************************************)
HexRunAt(s, k) ==
    k >= 1 /\ k + 15 <= Len(s) /\ \A j \in k..(k + 15) : s[j] \in HexChars

BracketedRunAt(s, k) ==
    /\ HexRunAt(s, k + 1)
    /\ s[k] = "["
    /\ k + 17 <= Len(s)
    /\ s[k + 17] = "]"

NoLowerCase(s) == \A j \in 1..Len(s) : s[j] \notin Range(LowerAlpha)

C9_FirstBracketedRunUpperCased ==
    pc = "ex_done" =>
      /\ \A k \in 1..Len(ex_name) :
            (BracketedRunAt(ex_name, k)
               /\ \A j \in 1..(k - 1) : ~BracketedRunAt(ex_name, j))
              => /\ Lower(ex_result) = Lower(SubSeq(ex_name, k + 1, k + 16))
                 /\ NoLowerCase(ex_result)
      /\ (\A k \in 1..Len(ex_name) : ~HexRunAt(ex_name, k)) => ex_result = None

\* a name with an unbracketed run before its first bracketed run, whose
\* bracketed run, written in lower case, has been returned
C9_Witness ==
    /\ pc = "ex_done"
    /\ \E k \in 1..Len(ex_name) :
          /\ BracketedRunAt(ex_name, k)
          /\ \E j \in 1..(k - 1) : BareAt(ex_name, j)
          /\ SubSeq(ex_name, k + 1, k + 16) # ex_result
          /\ Upper(SubSeq(ex_name, k + 1, k + 16)) = ex_result

(***************************************************************************)
(* C10.  The name of every bucket is, for one of the files filed in it,    *)
(* the name of the directory that directly contains the file if that name  *)
(* is non-empty and differs from the identifier, and only otherwise the    *)
(* name derived from the file name.                                        *)
(***************************************************************************)
NameByImmediateDir(f) == NameByImmediateDirTable[f]

C10_NameIsImmediateParentDir ==
    \A n \in 1..Len(raw_files) :
        ~StartsWith(raw_files[n].key, DirPrefix) =>
          \E f \in Scanned :
              /\ BucketKeyOf(f) = raw_files[n].key
              /\ raw_files[n].name = NameByImmediateDir(f)

(***************************************************************************)
(* C11.  Every group of the scan result has a non-empty display name; the  *)
(* name of a bucket made for an identifier has at least 2 characters, and  *)
(* it is Game_<identifier> when the directory name that would name it has  *)
(* fewer than 2 characters.                                                *)
(***************************************************************************)
IdKeyed(key) == ~StartsWith(key, DirPrefix)

C11_NameNeverEmpty ==
    /\ \A n \in 1..Len(game_files) : game_files[n].name # <<>>
    /\ \A n \in 1..Len(raw_files) :
          /\ raw_files[n].name # <<>>
          /\ IdKeyed(raw_files[n].key) =>
                /\ Len(raw_files[n].name) >= 2
                /\ Len(raw_files[n].dir) < 2 =>
                      raw_files[n].name = GamePrefix \o raw_files[n].key

\* a result with a group named Game_<identifier>, its directory name being
\* one character long
C11_Witness ==
    /\ pc = "done"
    /\ \E n \in 1..Len(game_files) :
          /\ game_files[n].name = GamePrefix \o game_files[n].key
          /\ \E f \in Scanned :
                BucketKeyOf(f) = game_files[n].key /\ Len(ParentDirOf(PartsOf(f))) = 1

(***************************************************************************)
(* C12: the update merge_files selects has the highest version, compared   *)
(* numerically component by component (major, minor, patch), a name with   *)
(* no parsable version counting as 0.0.0; file size decides only among     *)
(* updates of equal version.                                               *)
(***************************************************************************)
RECURSIVE DigitsValue(_)
DigitsValue(ds) ==
    IF ds = <<>> THEN 0
    ELSE 10 * DigitsValue(SubSeq(ds, 1, Len(ds) - 1))
         + (CHOOSE n \in 0..9 : NatStr(n) = <<ds[Len(ds)]>>)

\* the dot-separated components of a version string, as numbers
RECURSIVE VersionParts(_)
VersionParts(v) ==
    IF v = <<>> THEN <<>>
    ELSE LET e == DigitsEnd(v, 1)
         IN  <<DigitsValue(SubSeq(v, 1, e - 1))>> \o VersionParts(SubSeq(v, e + 1, Len(v)))

VersionTable ==
    [f \in FileIds |->
        LET p == VersionParts(ExtractVersionTable[f])
        IN  [k \in 1..3 |-> IF k <= Len(p) THEN p[k] ELSE 0]]

VersionLess(a, b) ==
    \E k \in 1..3 : a[k] < b[k] /\ \A j \in 1..(k - 1) : a[j] = b[j]

C12_HighestVersionSelected ==
    \A n \in 1..Len(merge_log) :
        LET call == merge_log[n]
            chosen == call.latest_update
        IN  (Started(call) /\ call.updates # <<>>) =>
                /\ chosen \in Range(call.updates)
                /\ \A u \in Range(call.updates) :
                      /\ ~VersionLess(VersionTable[chosen], VersionTable[u])
                      /\ VersionTable[u] = VersionTable[chosen] =>
                            SizeOf(u) <= SizeOf(chosen)

NoRepeat(q) == \A a, b \in 1..Len(q) : q[a] = q[b] => a = b

BaseCandidates(g) ==
    {f \in Scanned :
        /\ ~IsDlcTable[f] /\ ~IsUpdateTable[f]
        /\ \/ BucketKeyOf(f) = g.key
           \/ \E n \in 1..Len(raw_files) :
                 /\ raw_files[n].key = BucketKeyOf(f)
                 /\ \/ g.key = DirPrefix \o raw_files[n].dir
                    \/ g.key = raw_files[n].base_id /\ HasId(f)}

C16_StatFailureNeverAborts == pc # "failed"

(***************************************************************************)
(* C17: in a full-batch run (no group requested) no turn of main's loop    *)
(* starts merge_files for a group without base file, and the loop leaves   *)
(* the scan result as it is: a group without base stays in it and is still *)
(* found by a lookup of its id or its name.                                *)
(***************************************************************************)
NoBaseGroups(games) == {n \in 1..Len(games) : games[n].base = NoFile}

FoundByLookup(games, g) ==
    LET by_id == MatchingGames(games, g.key)
        by_name == MatchingGames(games, g.name)
    IN  /\ \E m \in 1..Len(by_id) : by_id[m] = g
        /\ \E m \in 1..Len(by_name) : by_name[m] = g

C17_BatchSkipsGroupsWithoutBase ==
    [][pc = "batch" =>
         /\ game_files' = game_files
         /\ \A n \in 1..Len(merge_log') :
               n > Len(merge_log) =>
                   /\ merge_log'[n].base # NoFile
                   /\ \A m \in NoBaseGroups(game_files) :
                         merge_log'[n].key # game_files[m].key
         /\ \A m \in NoBaseGroups(game_files) :
               FoundByLookup(game_files', game_files[m])]_vars

\* a finished full-batch run that merged a group and passed over another
C17_Witness ==
    /\ pc = "exit_0"
    /\ args = NoArgs
    /\ NoBaseGroups(game_files) # {}
    /\ \E n \in 1..Len(merge_log) : Started(merge_log[n])

(***************************************************************************)
(* C18, as stated: when --game-id matches exactly one group and that group *)
(* has no base file, the group is not passed over: the merge is carried    *)
(* out for it.                                                             *)
(***************************************************************************)
\* main was run with --game-id and the term matched this one group
RequestedAlone(g) ==
    /\ pc = "exit_0"
    /\ ~args.scan_only
    /\ args.game_id # None
    /\ reported = <<g.key>>
    /\ \E n \in 1..Len(game_files) : game_files[n] = g

C18_RequestedGroupWithoutBaseMerged ==
    \A n \in 1..Len(game_files) :
        (RequestedAlone(game_files[n]) /\ game_files[n].base = NoFile) =>
            \E m \in 1..Len(merge_log) :
                merge_log[m].key = game_files[n].key /\ Started(merge_log[m])

(***************************************************************************)
(* C18, amended: for such a group main does call merge_files, once, but    *)
(* the call returns at once (warning "no base file, cannot merge"): it     *)
(* selects no update, names no output and starts neither the merge tool    *)
(* nor a copy.                                                             *)
(***************************************************************************)
C18_RequestedGroupWithoutBaseCalledOnly ==
    \A n \in 1..Len(game_files) :
        (RequestedAlone(game_files[n]) /\ game_files[n].base = NoFile) =>
            /\ Len(merge_log) = 1
            /\ merge_log[1].key = game_files[n].key
            /\ merge_log[1].outcome = "no_base"
            /\ ~Started(merge_log[1])
            /\ merge_log[1].latest_update = NoFile
            /\ merge_log[1].output = None
            /\ merge_log[1].handed = <<>>

C18_Witness ==
    \E n \in 1..Len(game_files) :
        /\ RequestedAlone(game_files[n])
        /\ game_files[n].base = NoFile
        /\ game_files[n].updates # <<>>
        /\ Len(game_files) >= 2

(***************************************************************************)
(* C19: when the --game-id fragment is a case-insensitive substring of the *)
(* id or the name of more than one group, no group is merged and all the   *)
(* matching groups are reported as candidates; when it matches exactly one *)
(* group, that group and no other is passed to merge_files; when it        *)
(* matches none, nothing is merged.                                        *)
(***************************************************************************)
\* the positions of the groups the fragment matches
MatchedBy(term) ==
    {n \in 1..Len(game_files) :
        \E a \in 0..Len(game_files[n].key), b \in 0..Len(game_files[n].name) :
            \/ a + Len(term) <= Len(game_files[n].key)
               /\ Lower(SubSeq(game_files[n].key, a + 1, a + Len(term))) = Lower(term)
            \/ b + Len(term) <= Len(game_files[n].name)
               /\ Lower(SubSeq(game_files[n].name, b + 1, b + Len(term))) = Lower(term)}

C19_AmbiguousSelectionMergesNothing ==
    (pc = "exit_0" /\ ~args.scan_only /\ args.game_id # None) =>
        LET matched == MatchedBy(args.game_id)
        IN  /\ Len(reported) = Cardinality(matched)
            /\ \A n \in matched : \E k \in 1..Len(reported) : reported[k] = game_files[n].key
            /\ Cardinality(matched) # 1 => merge_log = <<>>
            /\ Cardinality(matched) = 1 =>
                  /\ Len(merge_log) = 1
                  /\ \A n \in matched :
                        /\ merge_log[1].key = game_files[n].key
                        /\ merge_log[1].base = game_files[n].base
                        /\ merge_log[1].updates = game_files[n].updates
                        /\ merge_log[1].dlcs = game_files[n].dlcs

\* a fragment with capital letters that matched two groups among three
C19_Witness ==
    /\ pc = "exit_0"
    /\ ~args.scan_only
    /\ args.game_id # None /\ Lower(args.game_id) # args.game_id
    /\ Len(reported) = 2
    /\ Len(game_files) = 3
    /\ merge_log = <<>>

Unordered(g) ==
    [key |-> g.key, name |-> g.name, base |-> g.base,
     updates |-> Range(g.updates), dlcs |-> Range(g.dlcs)]

SameGrouping(a, b) ==
    {Unordered(a[n]) : n \in 1..Len(a)} = {Unordered(b[n]) : n \in 1..Len(b)}

C21_OrderIndependent ==
    /\ (runs >= 2 /\ pc = "done") => SameGrouping(game_files, prev_result)
    /\ runs >= 2 => pc # "failed"

NameIdTable == [f \in FileIds |-> extract_title_id(PathName(PartsOf(f)))]

C23_IdentifierFromFileNameAlone ==
    \A n \in 1..Len(raw_files) :
        \A f \in GroupFiles(raw_files[n]) :
            IF NameIdTable[f] # None
            THEN raw_files[n].key = NameIdTable[f]
            ELSE StartsWith(raw_files[n].key, DirPrefix)

(***************************************************************************)
(* C24: every directory holding files of more than one identifier gives a  *)
(* group keyed by the directory, whose updates and DLC are the union of    *)
(* those identifiers' pools and whose base is the largest of their bases,  *)
(* also when one of the identifiers has files in another directory too; a  *)
(* directory holding files of one identifier gives that identifier's       *)
(* group with its base, updates and DLC as they are.                       *)
(***************************************************************************)
\* the directories (first path component) of the scanned files that lie in one
ScannedDirs == {ParentDirOf(PartsOf(f)) : f \in {h \in Scanned : Len(PartsOf(h)) >= 2}}

\* the identifiers that have a file in directory d
IdsIn(d) ==
    {BucketKeyOf(f) : f \in {h \in Scanned : Len(PartsOf(h)) >= 2
                                            /\ ParentDirOf(PartsOf(h)) = d}}

PoolsOf(d) == {raw_files[n] : n \in {m \in 1..Len(raw_files) : raw_files[m].key \in IdsIn(d)}}

C24_DirectoryGroups ==
    pc = "done" =>
        \A d \in ScannedDirs :
            IF Cardinality(IdsIn(d)) > 1
            THEN \E n \in 1..Len(game_files) :
                    LET g == game_files[n]
                    IN  /\ g.key = DirPrefix \o d
                        /\ Range(g.updates) = UNION {Range(r.updates) : r \in PoolsOf(d)}
                        /\ Range(g.dlcs) = UNION {Range(r.dlcs) : r \in PoolsOf(d)}
                        /\ \A r \in PoolsOf(d) :
                              r.base # NoFile =>
                                  g.base # NoFile /\ SizeOf(r.base) <= SizeOf(g.base)
            ELSE \A r \in PoolsOf(d) :
                    \E n \in 1..Len(game_files) :
                        LET g == game_files[n]
                        IN  /\ g.key = r.key
                            /\ g.base = r.base
                            /\ g.updates = r.updates
                            /\ g.dlcs = r.dlcs

(***************************************************************************)
(* C25: a group that the base-identifier pass builds from the identifiers  *)
(* of one family takes the base of an identifier ending in 000 if one of   *)
(* them has a base; else the base of the first identifier met that has     *)
(* one; it has no base only if no identifier of the family has one.        *)
(***************************************************************************)
\* the positions in ids of the identifiers whose bucket holds a base
HoldBase(ids) == {j \in 1..Len(ids) : Get(raw_files, ids[j]).base # NoFile}

C25_FamilyBaseChoice ==
    [][(AtBaseIds /\ Len(game_files') = Len(game_files) + 1) =>
         LET g == game_files'[Len(game_files')]
             ids == Get(base_id_map, g.key).ids
             z == {j \in HoldBase(ids) : EndsWith(ids[j], Suffix000)}
         IN  /\ z # {} => \E j \in z : g.base = Get(raw_files, ids[j]).base
             /\ (z = {} /\ HoldBase(ids) # {}) =>
                   \E j \in HoldBase(ids) :
                       /\ g.base = Get(raw_files, ids[j]).base
                       /\ \A k \in HoldBase(ids) : j <= k
             /\ g.base = NoFile <=> HoldBase(ids) = {}]_vars

\* a family group whose base is that of the identifier ending in 000 though
\* an identifier met before it holds a base too
C25_Witness ==
    /\ pc = "done"
    /\ \E n \in 1..Len(game_files) :
          LET g == game_files[n]
          IN  /\ IdKeyed(g.key)
              /\ \E f \in GroupFiles(g) : BucketKeyOf(f) # g.key
              /\ Has(base_id_map, g.key)
              /\ LET ids == Get(base_id_map, g.key).ids
                 IN  \E j, k \in HoldBase(ids) :
                        /\ j < k
                        /\ EndsWith(ids[k], Suffix000)
                        /\ g.base = Get(raw_files, ids[k]).base


(***************************************************************************)
(* C29: within one batch run no two different groups that both have a base *)
(* are written to the same output path: the output file names of distinct  *)
(* groups are distinct.                                                    *)
(***************************************************************************)
C29_DistinctOutputPaths ==
    (pc \in {"batch", "exit_0"} /\ args = NoArgs) =>
        \A i, j \in 1..Len(merge_log) :
            (/\ Started(merge_log[i]) /\ Started(merge_log[j])
             /\ merge_log[i].key # merge_log[j].key)
            => merge_log[i].output # merge_log[j].output

(***************************************************************************)
(* C26: merge_files on a group with a base enters direct-copy mode exactly *)
(* when the worker has not ended in time, has raised, or could not be      *)
(* started; in that mode the base file is copied to the output path unless *)
(* an output larger than 1 MiB is there already, with the TEMP/backup copy *)
(* as the second source; after a successful tool merge nothing is copied;  *)
(* for a group without a base neither a worker nor a copy is started.      *)
(***************************************************************************)
\* the step out of the thread start or out of the wait that has no
\* successful worker behind it
DirectCopyDue ==
    \/ mpc = "thread" /\ workers' = workers
    \/ mpc = "wait" /\ workers[cur.worker].phase # "ended"
    \/ mpc = "wait" /\ workers[cur.worker].phase = "ended"
                    /\ ~workers[cur.worker].success

\* the output path holds what file f holds
OutputHolds(dir, f) ==
    \E n \in 1..Len(dir) :
        dir[n].key = cur.output /\ dir[n].from = f /\ dir[n].size = SizeOf(f)

C26_DirectCopyMode ==
    /\ [][(mpc \in {"thread", "wait"} /\ mpc' # mpc) =>
            /\ (mpc' = "copy") <=> DirectCopyDue
            /\ cur'.direct_copy_mode <=> DirectCopyDue
            /\ mpc' \in {"copy", "end", "wait"}
            /\ (mpc' = "wait") => (mpc = "thread" /\ Len(workers') = Len(workers) + 1)]_vars
    /\ [][(mpc = "copy" /\ mpc' # mpc) =>
            IF \E n \in 1..Len(output_dir) :
                  output_dir[n].key = cur.output /\ output_dir[n].size > 1024 * 1024
            THEN output_dir' = output_dir /\ cur'.copied = "kept"
            ELSE \/ cur'.copied = "base" /\ OutputHolds(output_dir', cur.base)
                 \/ /\ cur'.copied = "backup"
                    /\ \E n \in 1..Len(backup_dir) :
                          /\ backup_dir[n].key = PathName(PartsOf(cur.base))
                          /\ OutputHolds(output_dir', backup_dir[n].file)
                 \/ cur'.copied = "failed" /\ output_dir' = output_dir]_vars
    /\ [](mpc = "copy" => cur.direct_copy_mode)
    /\ []((mpc = "end" /\ ~cur.direct_copy_mode) =>
             /\ cur.copied = "no"
             /\ workers[cur.worker].phase = "ended" /\ workers[cur.worker].success)
    /\ [][(pc = "one" /\ mpc = "idle" /\ game_files[idx].base = NoFile) =>
             UNCHANGED mergeVars]_vars

\* the worker did not end in time, the copy of the base failed and the
\* output was written from TEMP/backup
C26_Witness ==
    /\ mpc = "end"
    /\ cur.direct_copy_mode
    /\ cur.copied = "backup"
    /\ cur.worker # 0
    /\ workers[cur.worker].abandoned

(***************************************************************************)
(* C27: the output file of a group has a single writer: once merge_files   *)
(* has stopped waiting for the worker thread and has fallen back to the    *)
(* direct copy, the worker that still runs writes no more, neither to the  *)
(* output path nor under TEMP, during the copy or during the merge of the  *)
(* next group.                                                             *)
(***************************************************************************)
C27_AbandonedWorkerWritesNothing ==
    [][(/\ Len(workers') = Len(workers)
        /\ \E w \in 1..Len(workers) :
              workers[w].abandoned /\ workers'[w].phase # workers[w].phase)
       => (output_dir' = output_dir /\ work_dirs' = work_dirs)]_vars

(***************************************************************************)
(* C28: whenever merge_files takes the tool merge for successful           *)
(* (merge_success set, no direct copy), a file exists at the output path.  *)
(***************************************************************************)
C28_SuccessHasOutput ==
    (mpc = "end" /\ ~cur.direct_copy_mode) => Has(output_dir, cur.output)

(***************************************************************************)
(* C30: in switch_gui at most one switch_rom_merger subprocess runs at any *)
(* time: while a background operation is under way no user action starts a *)
(* second one; and the buttons an operation has disabled are enabled again *)
(* when it ends, whether it succeeds or raises.                            *)
(***************************************************************************)
\* the threads whose subprocess is running
Subprocesses == {t \in 1..Len(gui_threads) : gui_threads[t].at = "run"}

C30_OneSubprocess ==
    /\ [](Cardinality(Subprocesses) <= 1)
    /\ [][Len(gui_threads') > Len(gui_threads) => gui_threads = <<>>]_vars
    /\ [][\A t \in 1..Len(gui_threads) :
             (gui_threads[t].at = "finally" /\ Len(gui_threads') < Len(gui_threads)
              /\ \A k \in 1..(t - 1) : gui_threads'[k] = gui_threads[k])
             => scan_button' = "normal"]_vars

=========================================================================
